---- MODULE Spec2Model ----
(***************************************************************************)
(* Model of the rhythm-game judging engine (stream/rhythm_game_logic.py)   *)
(* and of the websocket consumer that drives it (stream/consumers.py).     *)
(*                                                                         *)
(* Units.  Times are integers in milliseconds (the code works in float     *)
(* ms: time.time() * 1000 and interval * 1000).  Scores are integers in    *)
(* hundredths of a point ("centi-points"): 100.0 points = 10000.    The    *)
(* power combo ** 1.2 is read from a table rounded to two decimals.        *)
(* JSON fields are tagged values: a number, null, or absent.               *)
(***************************************************************************)
EXTENDS Integers, Sequences, FiniteSets, TLC

(***************************************************************************)
(* Bounds of the model                                                     *)
(***************************************************************************)
\* number of entries of NOTE_INTERVALS the modelled schedule keeps
NumNotes == 21
\* hit/miss events handled after the cursor has run past the schedule
MaxExtra == 1
\* events per session that are not a PERFECT hit (GREAT, GOOD, BAD, MISS, raising)
MaxOffBeat == 1

\* largest |entry - target| (ms) the judging specification enumerates
JudgeSpan == 840

(***************************************************************************)
(* Program constants                                                       *)
(***************************************************************************)
\* TimingConfig
window_perfect == 416
excess_max == 416
cut_great == 5000
\* ComboConfig: growth_a = 1 / GrowthADen, growth_p = 1.2 (see PowTab)
GrowthADen == 100
bonus_cap_multiplier == 2
\* FeverConfig
fill_perfect == 10
fill_great == 5
fill_good == 2
fill_bad == 0
fill_miss == 0
gauge_max == 100
fever_duration_notes == 10
score_multiplier == 2
\* SpatialConfig
target_radius == 100
\* max_base = 100.0 points, in centi-points
max_base == 10000
\* sentinel entry time "no input", default miss distance
NoInput == -1
DefaultMinDist == 9999

\* NOTE_INTERVALS, each entry as interval * 1000 (ms)
NOTE_INTERVALS ==
  << 209, 1858, 1835, 1835, 928, 1254, 1347, 1324, 348, 464,
     1022, 1858, 1347, 1161, 1022, 1858, 2508, 1672, 3460, 326,
     2322, 4389, 1254, 1649, 1858, 1347, 928, 2415, 1812, 1857,
     1022, 1857, 1254, 720, 1277, 1138, 1858, 2183, 1138, 1277,
     1138, 1857, 1254, 720, 1277, 3692, 1161, 1602, 1277, 2554,
     1138, 1161, 1649, 1649, 1625, 1161, 1138, 813, 882, 1649 >>

\* the schedule the model plays: the first NumNotes intervals
Schedule == SubSeq(NOTE_INTERVALS, 1, NumNotes)

\* combo ** growth_p for growth_p = 1.2, times 100, rounded; index = combo
PowTab ==
  << 100, 230, 374, 528, 690, 859, 1033, 1213, 1397, 1585,
     1777, 1973, 2171, 2373, 2578, 2786, 2996, 3209, 3424, 3641,
     3861, 4082, 4306, 4532, 4759, 4988, 5220, 5452, 5687, 5923,
     6161, 6400, 6641, 6883, 7127, 7372, 7618, 7866, 8115, 8365,
     8617, 8870, 9124, 9379, 9635, 9893, 10151, 10411, 10672, 10934,
     11197, 11461, 11725, 11991, 12258, 12526, 12795, 13065, 13336, 13608,
     13880, 14154, 14428, 14703, 14979, 15256, 15534, 15813, 16092, 16373,
     16654, 16936, 17218, 17502, 17786, 18071, 18356, 18643, 18930, 19218,
     19507, 19796, 20086, 20377, 20668, 20960, 21253, 21547, 21841, 22136 >>

\* combo ** 1.2 (x100).  Past the table the value exceeds 200, where the
\* bonus cap (bonus_cap_multiplier) decides the result anyway.
PowGrowth(combo) ==
  IF combo <= 0 THEN 0
  ELSE IF combo > Len(PowTab) THEN PowTab[Len(PowTab)]
  ELSE PowTab[combo]

Min(a, b) == IF a <= b THEN a ELSE b
Max(a, b) == IF a >= b THEN a ELSE b
Abs(x) == IF x < 0 THEN -x ELSE x

\* round(x, 1) on centi-points: nearest 10, ties to even
Round1(x) ==
  LET q == x \div 10
      r == x % 10
  IN  IF r < 5 THEN q * 10
      ELSE IF r > 5 THEN (q + 1) * 10
      ELSE IF q % 2 = 0 THEN q * 10 ELSE (q + 1) * 10

(***************************************************************************)
(* JSON field values                                                       *)
(***************************************************************************)
Num(v) == [tag |-> "num", v |-> v]
Null == [tag |-> "null", v |-> 0]
Absent == [tag |-> "absent", v |-> 0]
IsNum(f) == f.tag = "num"

\* data.get(key) without a default: an absent key is passed on as it is
GetOr_NoDefault(f, default) == f

\* data.get(key, default): the default replaces an absent key only
GetOr(f, default) == IF f.tag = "absent" THEN Num(default) ELSE f

(***************************************************************************)
(* rhythm_game_logic.py                                                    *)
(***************************************************************************)
\* PlayState()
PlayState ==
  [ total_score |-> 0, max_possible_score |-> 0, current_combo |-> 0,
    max_combo |-> 0, fever_gauge |-> 0, fever_active_notes |-> 0 ]

is_fever_active(st) == st.fever_active_notes > 0

Failing == {"BAD", "MISS"}
Scoring == {"PERFECT", "GREAT", "GOOD"}

\* lines 149-154: current_note_total of a note with the combo already counted
NoteTotal(base_score, combo) ==
  base_score + Min((base_score * PowGrowth(combo)) \div (GrowthADen * 100),
                   base_score * bonus_cap_multiplier)

\* calculate_base_score with the position gate left out
calculate_base_score_NoGate(note) ==
  LET e == note.actual_entry
      d == note.min_dist
  IN
  IF IsNum(e) /\ e.v = NoInput THEN [score |-> 0, judgement |-> "MISS"]
  ELSE IF ~IsNum(d) \/ ~IsNum(e) THEN [score |-> 0, judgement |-> "TypeError"]
  ELSE
    LET abs_diff == Abs(e.v - note.target_start)
        excess == abs_diff - window_perfect
        score == (max_base * (excess_max - excess)) \div excess_max
    IN
    IF abs_diff <= window_perfect THEN [score |-> max_base, judgement |-> "PERFECT"]
    ELSE IF excess >= excess_max THEN [score |-> 0, judgement |-> "BAD"]
    ELSE IF score >= cut_great THEN [score |-> score, judgement |-> "GREAT"]
    ELSE [score |-> score, judgement |-> "GOOD"]

\* calculate_base_score with the GREAT cut written > instead of >=
calculate_base_score_StrictCut(note) ==
  LET e == note.actual_entry
      d == note.min_dist
  IN
  IF IsNum(e) /\ e.v = NoInput THEN [score |-> 0, judgement |-> "MISS"]
  ELSE IF ~IsNum(d) THEN [score |-> 0, judgement |-> "TypeError"]
  ELSE IF d.v > target_radius THEN [score |-> 0, judgement |-> "BAD"]
  ELSE IF ~IsNum(e) THEN [score |-> 0, judgement |-> "TypeError"]
  ELSE
    LET abs_diff == Abs(e.v - note.target_start)
        excess == abs_diff - window_perfect
        score == (max_base * (excess_max - excess)) \div excess_max
    IN
    IF abs_diff <= window_perfect THEN [score |-> max_base, judgement |-> "PERFECT"]
    ELSE IF excess >= excess_max THEN [score |-> 0, judgement |-> "BAD"]
    ELSE IF score > cut_great THEN [score |-> score, judgement |-> "GREAT"]
    ELSE [score |-> score, judgement |-> "GOOD"]

\* calculate_base_score.  note = [target_start, actual_entry, min_dist], the
\* last two tagged JSON values.  judgement "TypeError" stands for the exception
\* Python raises when None meets a comparison or a subtraction.
calculate_base_score(note) ==
  LET e == note.actual_entry
      d == note.min_dist
  IN
  IF IsNum(e) /\ e.v = NoInput THEN [score |-> 0, judgement |-> "MISS"]
  ELSE IF ~IsNum(d) THEN [score |-> 0, judgement |-> "TypeError"]
  ELSE IF d.v > target_radius THEN [score |-> 0, judgement |-> "BAD"]
  ELSE IF ~IsNum(e) THEN [score |-> 0, judgement |-> "TypeError"]
  ELSE
    LET diff == e.v - note.target_start
        abs_diff == Abs(diff)
        W == window_perfect
        excess == abs_diff - W
        \* score = 100 * (1 - excess / excess_max), in centi-points
        score == (max_base * (excess_max - excess)) \div excess_max
    IN
    IF abs_diff <= W THEN [score |-> max_base, judgement |-> "PERFECT"]
    \* penalty_ratio = min(excess / excess_max, 1.0) >= 1.0
    ELSE IF excess >= excess_max THEN [score |-> 0, judgement |-> "BAD"]
    ELSE IF max_base * (excess_max - excess) <= 0 THEN [score |-> 0, judgement |-> "BAD"]
    ELSE IF max_base * (excess_max - excess) >= cut_great * excess_max
           THEN [score |-> score, judgement |-> "GREAT"]
    ELSE [score |-> score, judgement |-> "GOOD"]

\* the fill_amt dictionary with the MISS entry filled like GOOD
FillAmount_MissFills(judgement) ==
  CASE judgement = "PERFECT" -> fill_perfect
    [] judgement = "GREAT" -> fill_great
    [] judgement = "GOOD" -> fill_good
    [] judgement = "BAD" -> fill_bad
    [] judgement = "MISS" -> fill_good
    [] OTHER -> 0

\* the fill_amt dictionary
FillAmount(judgement) ==
  CASE judgement = "PERFECT" -> fill_perfect
    [] judgement = "GREAT" -> fill_great
    [] judgement = "GOOD" -> fill_good
    [] judgement = "BAD" -> fill_bad
    [] judgement = "MISS" -> fill_miss
    [] OTHER -> 0

\* rank letter of process_note_result
NoteRank(total, maxp) ==
  \* rank_ratio = total / maxp if maxp > 0 else 0.0
  LET num == IF maxp > 0 THEN total ELSE 0
      den == IF maxp > 0 THEN maxp ELSE 1
  IN  IF num * 100 >= 90 * den THEN "S"
      ELSE IF num * 100 >= 80 * den THEN "A"
      ELSE IF num * 100 >= 70 * den THEN "B"
      ELSE IF num * 100 >= 60 * den THEN "C"
      ELSE "F"

\* lines 142-160 with a failed note consuming a fever credit too
ComboStep_FailConsumes(st, base_score, judgement) ==
  LET combo == IF judgement \in Failing THEN 0 ELSE st.current_combo + 1
      st1 == [st EXCEPT !.current_combo = combo,
                        !.max_combo = Max(st.max_combo, combo)]
      bonus_score == (base_score * PowGrowth(combo)) \div (GrowthADen * 100)
      current_note_total ==
        IF judgement \in Failing THEN 0
        ELSE base_score + Min(bonus_score, base_score * bonus_cap_multiplier)
  IN  IF is_fever_active(st1)
      THEN [st |-> [st1 EXCEPT !.fever_active_notes = @ - 1],
            final_score |-> current_note_total * score_multiplier]
      ELSE [st |-> st1, final_score |-> current_note_total]

\* lines 142-160 with max_combo assigned the current combo instead of the max
ComboStep_MaxOverwritten(st, base_score, judgement) ==
  IF judgement \in Failing
  THEN [st |-> [st EXCEPT !.current_combo = 0], final_score |-> 0]
  ELSE
    LET combo == st.current_combo + 1
        st1 == [st EXCEPT !.current_combo = combo, !.max_combo = combo]
        bonus_score == (base_score * PowGrowth(combo)) \div (GrowthADen * 100)
        current_note_total == base_score + Min(bonus_score, base_score * bonus_cap_multiplier)
    IN  IF is_fever_active(st1)
        THEN [st |-> [st1 EXCEPT !.fever_active_notes = @ - 1],
              final_score |-> current_note_total * score_multiplier]
        ELSE [st |-> st1, final_score |-> current_note_total]

\* lines 142-160 without the decrement of fever_active_notes
ComboStep_NoDecrement(st, base_score, judgement) ==
  IF judgement \in Failing
  THEN [st |-> [st EXCEPT !.current_combo = 0], final_score |-> 0]
  ELSE
    LET combo == st.current_combo + 1
        st1 == [st EXCEPT !.current_combo = combo, !.max_combo = Max(@, combo)]
        current_note_total == NoteTotal(base_score, combo)
    IN  IF is_fever_active(st1)
        THEN [st |-> st1, final_score |-> current_note_total * score_multiplier]
        ELSE [st |-> st1, final_score |-> current_note_total]

\* lines 142-160: combo and final score; returns the state and final_score
ComboStep(st, base_score, judgement) ==
  IF judgement \in Failing
  THEN [st |-> [st EXCEPT !.current_combo = 0], final_score |-> 0]
  ELSE
    LET combo == st.current_combo + 1
        st1 == [st EXCEPT !.current_combo = combo,
                          !.max_combo = Max(st.max_combo, combo)]
        \* bonus_ratio = growth_a * combo ** growth_p
        bonus_score == (base_score * PowGrowth(combo)) \div (GrowthADen * 100)
        max_bonus == base_score * bonus_cap_multiplier
        current_note_total == base_score + Min(bonus_score, max_bonus)
    IN  IF is_fever_active(st1)
        THEN [st |-> [st1 EXCEPT !.fever_active_notes = @ - 1],
              final_score |-> current_note_total * score_multiplier]
        ELSE [st |-> st1, final_score |-> current_note_total]

\* lines 163-175 with the activation test written > instead of >=
FeverStep_StrictThreshold(st, judgement) ==
  IF ~is_fever_active(st)
  THEN LET g == st.fever_gauge + FillAmount(judgement)
       IN  IF g > gauge_max
           THEN [st EXCEPT !.fever_gauge = 0,
                           !.fever_active_notes = fever_duration_notes]
           ELSE [st EXCEPT !.fever_gauge = g]
  ELSE st

\* lines 163-175: gauge fill and fever activation
FeverStep(st, judgement) ==
  IF ~is_fever_active(st)
  THEN LET g == st.fever_gauge + FillAmount(judgement)
       IN  IF g >= gauge_max
           THEN [st EXCEPT !.fever_gauge = 0,
                           !.fever_active_notes = fever_duration_notes]
           ELSE [st EXCEPT !.fever_gauge = g]
  ELSE st

\* lines 177-188 with no theoretical maximum credited for a BAD or MISS note
LedgerStep_FailNoCredit(st, final_score, judgement) ==
  LET max_bonus_val ==
        Min((max_base * PowGrowth(st.current_combo)) \div (GrowthADen * 100),
            max_base * bonus_cap_multiplier)
      mult == IF is_fever_active(st) THEN score_multiplier ELSE 1
      possible_score ==
        IF judgement \in Failing THEN 0 ELSE (max_base + max_bonus_val) * mult
  IN  [st EXCEPT !.total_score = @ + final_score,
                 !.max_possible_score = @ + possible_score]

\* lines 177-188: total and theoretical maximum
LedgerStep(st, final_score, judgement) ==
  LET simulated_max_combo ==
        IF judgement \in Failing THEN st.max_combo + 1 ELSE st.current_combo
      max_bonus_val ==
        Min((max_base * PowGrowth(simulated_max_combo)) \div (GrowthADen * 100),
            max_base * bonus_cap_multiplier)
      mult == IF is_fever_active(st) THEN score_multiplier ELSE 1
      possible_score == (max_base + max_bonus_val) * mult
  IN  [st EXCEPT !.total_score = @ + final_score,
                 !.max_possible_score = @ + possible_score]

\* process_note_result: [st, raised, result, judgement, base_score, final_score].
\* raised = TRUE: the call ended in an exception; st is the state it left.
process_note_result(note, state) ==
  LET b == calculate_base_score(note) IN
  IF b.judgement = "TypeError"
  THEN [st |-> state, raised |-> TRUE, result |-> <<>>, judgement |-> "TypeError",
        base_score |-> 0, final_score |-> 0]
  ELSE
    LET c == ComboStep(state, b.score, b.judgement)
        st2 == FeverStep(c.st, b.judgement)
        st3 == LedgerStep(st2, c.final_score, b.judgement)
        rank == NoteRank(st3.total_score, st3.max_possible_score)
        e == note.actual_entry
        \* debug_in subtracts target_start from actual_entry unless it is -1
        debugRaises == ~IsNum(e)
        res == [ type |-> "result",
                 judgement |-> b.judgement,
                 base_score |-> Round1(b.score),
                 final_score |-> Round1(c.final_score),
                 combo |-> st3.current_combo,
                 fever_active |-> is_fever_active(st3),
                 fever_gauge |-> st3.fever_gauge,
                 fever_max |-> gauge_max,
                 fever_active_notes |-> st3.fever_active_notes,
                 fever_duration |-> fever_duration_notes,
                 total_score |-> Round1(st3.total_score),
                 rank |-> rank,
                 debug_in |-> IF IsNum(e) /\ e.v # NoInput
                              THEN e.v - note.target_start ELSE NoInput ]
    IN  IF debugRaises
        THEN [st |-> st3, raised |-> TRUE, result |-> <<>>, judgement |-> b.judgement,
              base_score |-> b.score, final_score |-> c.final_score]
        ELSE [st |-> st3, raised |-> FALSE, result |-> <<res>>, judgement |-> b.judgement,
              base_score |-> b.score, final_score |-> c.final_score]

(***************************************************************************)
(* consumers.py: RhythmGameConsumer                                        *)
(***************************************************************************)
VARIABLES
  state,                \* self.state: the PlayState record
  note_index,           \* self.note_index: the schedule cursor
  current_target_time,  \* self.current_target_time (ms)
  out,                  \* the messages the latest handler call sent, in order
  phase,                \* MENU / PLAYING / GAME_OVER as announced to the client
  last,                 \* the latest inbound event and how it was judged
  anchor,               \* time.time() * 1000 as read by the latest start (0 before)
  nEvents,              \* hit/miss events received since connect or the last start
  nJudged,              \* of those, the ones calculate_base_score gave a judgement
  peakCombo,            \* the largest current_combo seen since connect or the last start
  boosted,              \* notes scored with the fever multiplier since the latest activation
  offBeat               \* of those, the ones that were not a PERFECT hit

vars == << state, note_index, current_target_time, out, phase, last, anchor, nEvents, nJudged, peakCombo, boosted, offBeat >>

\* inputs
Nows == {1000000, 1000777}
Offsets == {0, -520, 728, 900}

\* get_next_note_time: the new current_target_time, the returned value
\* (none = TRUE for None) and whether time.time() was read
get_next_note_time(idx, cur, now) ==
  IF idx < Len(Schedule)
  THEN LET interval == Schedule[idx + 1]
           t == IF idx = 0 THEN now + interval ELSE cur + interval
       IN  [target |-> t, none |-> FALSE, ret |-> t, clock_read |-> (idx = 0)]
  ELSE [target |-> cur, none |-> TRUE, ret |-> 0, clock_read |-> FALSE]

\* calculate_final_rank with the S threshold at 0.95
calculate_final_rank_S95(st) ==
  IF st.max_possible_score <= 0 THEN "F"
  ELSE IF st.total_score * 100 >= 95 * st.max_possible_score THEN "S"
  ELSE IF st.total_score * 100 >= 80 * st.max_possible_score THEN "A"
  ELSE IF st.total_score * 100 >= 70 * st.max_possible_score THEN "B"
  ELSE IF st.total_score * 100 >= 60 * st.max_possible_score THEN "C"
  ELSE "F"

\* calculate_final_rank
calculate_final_rank(st) ==
  IF st.max_possible_score <= 0 THEN "F"
  ELSE IF st.total_score * 100 >= 90 * st.max_possible_score THEN "S"
  ELSE IF st.total_score * 100 >= 80 * st.max_possible_score THEN "A"
  ELSE IF st.total_score * 100 >= 70 * st.max_possible_score THEN "B"
  ELSE IF st.total_score * 100 >= 60 * st.max_possible_score THEN "C"
  ELSE "F"

NextTargetMsg(t) == [type |-> "next_target", target_start |-> t]

GameOverMsg(st) ==
  [ type |-> "game_over",
    total_score |-> Round1(st.total_score),
    max_possible_score |-> Round1(st.max_possible_score),
    rank |-> calculate_final_rank(st) ]

\* connect(): the state after construction
Init ==
  /\ state = PlayState
  /\ note_index = 0
  /\ current_target_time = 0
  /\ out = << [type |-> "system", state |-> "MENU"] >>
  /\ phase = "MENU"
  /\ last = [ action |-> "connect", entry_time |-> Absent, min_dist |-> Absent,
              now |-> 0, target_start |-> 0, cursor |-> 0, phase |-> "MENU",
              judgement |-> "NONE", base_score |-> 0, final_score |-> 0,
              raised |-> FALSE, clock_read |-> FALSE ]
  /\ anchor = 0
  /\ nEvents = 0
  /\ nJudged = 0
  /\ peakCombo = 0
  /\ boosted = 0
  /\ offBeat = 0

\* receive, action == 'game_start', without a new PlayState()
StartBranch_KeepsState(data, now) ==
  LET g == get_next_note_time(0, current_target_time, now) IN
  /\ UNCHANGED state
  /\ note_index' = 0
  /\ current_target_time' = g.target
  /\ out' = << [type |-> "game_start"], NextTargetMsg(g.ret) >>
  /\ phase' = "PLAYING"
  /\ last' = [ action |-> data.action, entry_time |-> data.entry_time,
               min_dist |-> data.min_dist, now |-> now,
               target_start |-> current_target_time, cursor |-> note_index,
               phase |-> phase, judgement |-> "NONE", base_score |-> 0,
               final_score |-> 0, raised |-> FALSE, clock_read |-> g.clock_read ]
  /\ anchor' = now
  /\ nEvents' = 0
  /\ nJudged' = 0
  /\ peakCombo' = 0
  /\ boosted' = 0
  /\ offBeat' = 0

\* receive, action == 'game_start'
StartBranch(data, now) ==
  LET g == get_next_note_time(0, current_target_time, now) IN
  /\ state' = PlayState
  /\ note_index' = 0
  /\ current_target_time' = g.target
  /\ out' = << [type |-> "game_start"], NextTargetMsg(g.ret) >>
  /\ phase' = "PLAYING"
  /\ last' = [ action |-> data.action, entry_time |-> data.entry_time,
               min_dist |-> data.min_dist, now |-> now,
               target_start |-> current_target_time, cursor |-> note_index,
               phase |-> phase, judgement |-> "NONE", base_score |-> 0,
               final_score |-> 0, raised |-> FALSE, clock_read |-> g.clock_read ]
  /\ anchor' = now
  /\ nEvents' = 0
  /\ nJudged' = 0
  /\ peakCombo' = 0
  /\ boosted' = 0
  /\ offBeat' = 0

\* receive, action == 'gesture_complete' or action == 'miss'
NoteBranch(data, now) ==
  LET actual_entry == IF data.action = "miss" THEN Num(NoInput)
                      ELSE GetOr(data.entry_time, NoInput)
      min_dist == GetOr(data.min_dist, DefaultMinDist)
      note_event == [ target_start |-> current_target_time,
                      actual_entry |-> actual_entry, min_dist |-> min_dist ]
      idx == note_index + 1
      g == get_next_note_time(idx, current_target_time, now)
      \* if next_time: (None and 0.0 are both false)
      truthy == ~g.none /\ g.ret # 0
  IN
  \E r \in {process_note_result(note_event, state)} :
  LET perfect == ~r.raised /\ r.judgement = "PERFECT" IN
  /\ nEvents < NumNotes + MaxExtra
  /\ perfect \/ offBeat < MaxOffBeat
  /\ nEvents' = nEvents + 1
  /\ nJudged' = IF r.judgement = "TypeError" THEN nJudged ELSE nJudged + 1
  /\ peakCombo' = Max(peakCombo, r.st.current_combo)
  /\ boosted' = IF r.st.fever_active_notes > state.fever_active_notes THEN 0
                ELSE IF /\ r.judgement \in Scoring
                        /\ r.final_score = score_multiplier
                                             * NoteTotal(r.base_score, r.st.current_combo)
                     THEN boosted + 1
                     ELSE boosted
  /\ UNCHANGED anchor
  /\ offBeat' = IF perfect THEN offBeat ELSE offBeat + 1
  /\ state' = r.st
  /\ IF r.raised
     THEN /\ UNCHANGED << note_index, current_target_time, phase >>
          /\ out' = << >>
          /\ last' = [ action |-> data.action, entry_time |-> data.entry_time,
                       min_dist |-> data.min_dist, now |-> 0,
                       target_start |-> current_target_time, cursor |-> note_index,
                       phase |-> phase, judgement |-> r.judgement,
                       base_score |-> r.base_score, final_score |-> r.final_score,
                       raised |-> TRUE, clock_read |-> FALSE ]
     ELSE /\ note_index' = idx
          /\ current_target_time' = g.target
          /\ out' = r.result \o
                    (IF truthy THEN << NextTargetMsg(g.ret) >>
                               ELSE << GameOverMsg(r.st) >>)
          /\ phase' = IF ~truthy /\ phase # "MENU" THEN "GAME_OVER" ELSE phase
          /\ last' = [ action |-> data.action, entry_time |-> data.entry_time,
                       min_dist |-> data.min_dist,
                       now |-> IF g.clock_read THEN now ELSE 0,
                       target_start |-> current_target_time, cursor |-> note_index,
                       phase |-> phase, judgement |-> r.judgement,
                       base_score |-> r.base_score, final_score |-> r.final_score,
                       raised |-> FALSE, clock_read |-> g.clock_read ]

\* receive, any other action: nothing is done
IgnoreBranch(data, now) ==
  /\ UNCHANGED << state, note_index, current_target_time, phase, anchor, nEvents, nJudged, peakCombo, boosted, offBeat >>
  /\ out' = << >>
  /\ last' = [ action |-> data.action, entry_time |-> data.entry_time,
               min_dist |-> data.min_dist, now |-> 0,
               target_start |-> current_target_time, cursor |-> note_index,
               phase |-> phase, judgement |-> "NONE", base_score |-> 0,
               final_score |-> 0, raised |-> FALSE, clock_read |-> FALSE ]

\* receive(text_data), with data the decoded JSON object and now = time.time() * 1000
receive(data, now) ==
  IF data.action = "game_start" THEN StartBranch(data, now)
  ELSE IF data.action \in {"gesture_complete", "miss"} THEN NoteBranch(data, now)
  ELSE IgnoreBranch(data, now)

\* time.time() is consulted by get_next_note_time only when the cursor is 0;
\* elsewhere its value has no effect and is not enumerated
NowsAt(idx) == IF idx = 0 THEN Nows ELSE {0}

\* entry_time of a hit, d ms off the note that is due
At(d) == Num(current_target_time + d)

\* the <<entry_time, min_dist>> payloads of gesture_complete events
HitPayloads ==
  {<<At(d), Num(50)>> : d \in Offsets}
    \cup {<<At(d), x>> : d \in {0, 900}, x \in {Num(150), Absent, Null}}
    \cup {<<Absent, x>> : x \in {Num(50), Absent}}
    \cup {<<Null, x>> : x \in {Num(50), Num(150), Absent, Null}}

GameStart ==
  \E now \in NowsAt(0) :
    receive([action |-> "game_start", entry_time |-> Absent, min_dist |-> Absent], now)

GestureComplete ==
  \E now \in NowsAt(note_index + 1), p \in HitPayloads :
    receive([action |-> "gesture_complete", entry_time |-> p[1], min_dist |-> p[2]], now)

Miss ==
  \E now \in NowsAt(note_index + 1), d \in {Absent, Num(150)} :
    receive([action |-> "miss", entry_time |-> Absent, min_dist |-> d], now)

OtherAction ==
  receive([action |-> "ping", entry_time |-> Absent, min_dist |-> Absent], 0)

Next == GameStart \/ GestureComplete \/ Miss \/ OtherAction

Spec == Init /\ [][Next]_vars

(***************************************************************************)
(* Vocabulary of the properties                                            *)
(***************************************************************************)
NoteActions == {"gesture_complete", "miss"}

\* the latest inbound event was a hit or a miss
NoteEventSeen == last.action \in NoteActions

\* the NoteEvent fields the latest hit/miss event was turned into
LastEntry == IF last.action = "miss" THEN Num(NoInput) ELSE GetOr(last.entry_time, NoInput)
LastDist == GetOr(last.min_dist, DefaultMinDist)

\* the result records among the messages of the latest handler call
Results == {i \in 1..Len(out) : out[i].type = "result"}

\* schedule[0] + ... + schedule[k-1], in ms
RECURSIVE SumTo(_)
SumTo(k) == IF k = 0 THEN 0 ELSE SumTo(k - 1) + Schedule[k]

(***************************************************************************)
(* C1.  Once game_over has been emitted for a session, a further hit or    *)
(* miss event (before a new start) is not processed as a note: no result   *)
(* record, and session state and schedule cursor stay as they were.        *)
(***************************************************************************)
C1_GameOverIsTerminal ==
  [][ (phase = "GAME_OVER" /\ last'.action \in NoteActions)
        => /\ \A i \in 1..Len(out') : out'[i].type # "result"
           /\ state' = state
           /\ note_index' = note_index ]_vars

(***************************************************************************)
(* C2.  In MENU (connected, no start signal yet) a hit or miss event is    *)
(* not judged: no result record, and session state, cursor and target      *)
(* time stay as connect left them.                                         *)
(***************************************************************************)
C2_MenuIgnoresNotes ==
  [][ (phase = "MENU" /\ last'.action \in NoteActions)
        => /\ \A i \in 1..Len(out') : out'[i].type # "result"
           /\ state' = state
           /\ note_index' = note_index
           /\ current_target_time' = current_target_time ]_vars

(***************************************************************************)
(* C3.  Whatever happened before on the connection, right after a start    *)
(* signal every session field is 0, the cursor is 0 and the target time is *)
(* now + schedule[0], which is the target time sent to the client.         *)
(***************************************************************************)
C3_StartIsFresh ==
  last.action = "game_start" =>
    /\ state.total_score = 0
    /\ state.max_possible_score = 0
    /\ state.current_combo = 0
    /\ state.max_combo = 0
    /\ state.fever_gauge = 0
    /\ state.fever_active_notes = 0
    /\ note_index = 0
    /\ current_target_time = last.now + NOTE_INTERVALS[1]
    /\ out[Len(out)] = [type |-> "next_target", target_start |-> last.now + NOTE_INTERVALS[1]]

\* a start signal arrives after a session that was played to game over with
\* fever credits, combo and totals left in it
C3_Witness ==
  /\ last.action = "game_start"
  /\ last.phase = "GAME_OVER"
  /\ last.cursor >= Len(Schedule)
  /\ last.target_start # last.now + NOTE_INTERVALS[1]
  /\ state = PlayState

(***************************************************************************)
(* C4.  In a session begun by a start signal every hit or miss event       *)
(* yields exactly one result record followed by exactly one next_target or *)
(* game_over, and moves the cursor by one; game_over comes on the          *)
(* len(schedule)-th event since the start and on no earlier one.           *)
(***************************************************************************)
C4_EveryEventAdvances ==
  (NoteEventSeen /\ last.phase = "PLAYING") =>
    /\ Len(out) = 2
    /\ out[1].type = "result"
    /\ out[2].type \in {"next_target", "game_over"}
    /\ note_index = last.cursor + 1
    /\ (out[2].type = "game_over") <=> (nEvents = Len(Schedule))

(***************************************************************************)
(* C5.  In a session begun by a start signal read at time T0 (anchor), the *)
(* (k+1)-th hit or miss event judged since the start is judged against     *)
(* T0 + schedule[0] + ... + schedule[k], for k below the schedule length,  *)
(* and no event other than the start reads the clock.                      *)
(***************************************************************************)
C5_TargetIsCumulative ==
  (NoteEventSeen /\ last.phase = "PLAYING" /\ last.judgement # "TypeError"
     /\ nJudged <= Len(Schedule)) =>
    /\ last.target_start = anchor + SumTo(nJudged)
    /\ ~last.clock_read

(***************************************************************************)
(* C6.  The rank and total score of the game_over summary are those of the *)
(* result record sent just before it, and the session-end rank computation *)
(* agrees with the per-note one on the accumulated totals of every         *)
(* reachable state.                                                        *)
(***************************************************************************)
C6_RanksAgree ==
  /\ calculate_final_rank(state) = NoteRank(state.total_score, state.max_possible_score)
  /\ \A i \in 1..Len(out) :
       out[i].type = "game_over" =>
         /\ i = 2
         /\ out[1].type = "result"
         /\ out[2].rank = out[1].rank
         /\ out[2].total_score = out[1].total_score

\* a session played to its end whose summary carries a rank above F
C6_Witness ==
  /\ phase = "GAME_OVER"
  /\ Len(out) = 2
  /\ out[2].type = "game_over"
  /\ out[2].rank # "F"
  /\ last.phase = "PLAYING"

(***************************************************************************)
(* C7.  fever_gauge stays in 0 .. gauge_max - 1: a fill that reaches       *)
(* gauge_max resets it to 0 in the same note.                              *)
(***************************************************************************)
C7_GaugeInRange == state.fever_gauge \in 0..(gauge_max - 1)

\* the note whose fill took the gauge to gauge_max has just been processed
C7_Witness ==
  /\ NoteEventSeen
  /\ last.phase = "PLAYING"
  /\ last.judgement = "PERFECT"
  /\ state.fever_gauge = 0
  /\ state.fever_active_notes = fever_duration_notes
  /\ state.max_combo >= gauge_max \div fill_perfect

(***************************************************************************)
(* C8.  Over a processed note fever_active_notes either stays, or goes     *)
(* from 0 to fever_duration_notes on the note whose fill takes the gauge   *)
(* to gauge_max (the gauge is then 0), or drops by exactly 1 on a          *)
(* PERFECT/GREAT/GOOD note taken while it was positive; a BAD or MISS note *)
(* never changes it.                                                       *)
(***************************************************************************)
C8_FeverCredits ==
  [][ last'.action \in NoteActions =>
        LET a == state.fever_active_notes
            b == state'.fever_active_notes
            j == last'.judgement
            filled == state.fever_gauge + FillAmount(j) >= gauge_max
        IN  /\ (j \in Scoring /\ a > 0) => b = a - 1
            /\ (j \in Scoring /\ a = 0 /\ filled)
                 => (b = fever_duration_notes /\ state'.fever_gauge = 0)
            /\ (j \in Scoring /\ a = 0 /\ ~filled) => b = 0
            /\ j \notin Scoring => b = a ]_vars

\* ten PERFECT notes in a row from a fresh session: gauge back at 0, ten credits
C8_Witness ==
  /\ phase = "PLAYING"
  /\ nEvents = 10
  /\ offBeat = 0
  /\ state.current_combo = 10
  /\ state.fever_gauge = 0
  /\ state.fever_active_notes = 10

(***************************************************************************)
(* C9 (as claimed).  Every note whose miss distance exceeds target_radius  *)
(* is judged BAD with final score 0, whatever its entry time.              *)
(***************************************************************************)
C9_FarIsAlwaysBad ==
  (NoteEventSeen /\ IsNum(LastDist) /\ LastDist.v > target_radius) =>
    /\ last.judgement = "BAD"
    /\ last.final_score = 0

(***************************************************************************)
(* C9 (amended).  Every note whose entry time is not the no-input sentinel *)
(* and whose miss distance exceeds target_radius is judged BAD with final  *)
(* score 0, whatever its timing offset.                                    *)
(***************************************************************************)
C9_FarHitIsBad ==
  (NoteEventSeen /\ LastEntry # Num(NoInput)
     /\ IsNum(LastDist) /\ LastDist.v > target_radius) =>
    /\ last.judgement = "BAD"
    /\ last.final_score = 0
    /\ \A i \in Results : out[i].judgement = "BAD" /\ out[i].final_score = 0

\* a hit exactly on time but 150 away from the target
C9_Witness ==
  /\ last.action = "gesture_complete"
  /\ last.phase = "PLAYING"
  /\ last.entry_time = Num(last.target_start)
  /\ last.min_dist = Num(150)
  /\ last.judgement = "BAD"
  /\ Results # {}

(***************************************************************************)
(* C10.  A miss event, or a hit carrying the no-input sentinel, is judged  *)
(* MISS with base and final score 0 and sets current_combo to 0; it leaves *)
(* fever_gauge, fever_active_notes, total_score and max_combo unchanged.   *)
(***************************************************************************)
C10_MissFrame ==
  [][ (last'.action \in NoteActions
        /\ (IF last'.action = "miss" THEN Num(NoInput)
            ELSE GetOr(last'.entry_time, NoInput)) = Num(NoInput))
        => /\ last'.judgement = "MISS"
           /\ last'.base_score = 0
           /\ last'.final_score = 0
           /\ Len(out') = 2
           /\ out'[1].type = "result"
           /\ out'[1].judgement = "MISS"
           /\ out'[1].base_score = 0
           /\ out'[1].final_score = 0
           /\ out'[1].combo = 0
           /\ state'.current_combo = 0
           /\ state'.fever_gauge = state.fever_gauge
           /\ state'.fever_active_notes = state.fever_active_notes
           /\ state'.total_score = state.total_score
           /\ state'.max_combo = state.max_combo ]_vars

\* a miss event taken during an active fever window with a combo running
C10_Witness ==
  /\ last.action = "miss"
  /\ last.phase = "PLAYING"
  /\ last.judgement = "MISS"
  /\ state.fever_active_notes > 0
  /\ state.max_combo > 0
  /\ state.total_score > 0
  /\ state.current_combo = 0

(***************************************************************************)
(* The judging function on its own: calculate_base_score applied to notes  *)
(* whose entry time lies up to JudgeSpan ms around the target, at          *)
(* distances inside, on and outside target_radius, and to notes without    *)
(* input.  The note and its outcome are kept in last; nothing else moves.  *)
(***************************************************************************)
JudgeTargets == {n + NOTE_INTERVALS[1] : n \in Nows}
JudgeDists == {0, target_radius, target_radius + 1}

\* a note to be judged, not judged yet
InitJudge ==
  /\ state = PlayState
  /\ note_index = 0
  /\ current_target_time = 0
  /\ out = << >>
  /\ phase = "MENU"
  /\ anchor = 0
  /\ nEvents = 0
  /\ nJudged = 0
  /\ peakCombo = 0
  /\ boosted = 0
  /\ offBeat = 0
  /\ \E t \in JudgeTargets, dist \in JudgeDists :
     \E e \in {Num(t + off) : off \in (0 - JudgeSpan)..JudgeSpan} \cup {Num(NoInput)} :
       last = [ action |-> "note", entry_time |-> e, min_dist |-> Num(dist),
                now |-> 0, target_start |-> t, cursor |-> 0, phase |-> "MENU",
                judgement |-> "NONE", base_score |-> 0, final_score |-> 0,
                raised |-> FALSE, clock_read |-> FALSE ]

\* calculate_base_score applied to it
Judge ==
  /\ last.action = "note"
  /\ LET b == calculate_base_score(
                [ target_start |-> last.target_start,
                  actual_entry |-> last.entry_time, min_dist |-> last.min_dist ])
     IN  last' = [last EXCEPT !.action = "judge", !.judgement = b.judgement,
                              !.base_score = b.score]
  /\ UNCHANGED << state, note_index, current_target_time, out, phase,
                  anchor, nEvents, nJudged, peakCombo, boosted, offBeat >>

SpecJudge == InitJudge /\ [][Judge]_vars

(***************************************************************************)
(* C11.  For a note with an entry time other than the sentinel and a miss  *)
(* distance within target_radius the judgement depends on                  *)
(* absDiff = |entry - target| alone: PERFECT, base score 100, iff          *)
(* absDiff <= 416; BAD, base score 0, iff absDiff >= 832; in between the   *)
(* base score is 100 * (1 - (absDiff - 416) / 416), GREAT for              *)
(* 416 < absDiff <= 624 and GOOD for 624 < absDiff < 832.  The base score  *)
(* is 0 exactly when the judgement is BAD or MISS.                         *)
(***************************************************************************)
C11_TimingWindows ==
  last.action = "judge" =>
    LET a == Abs(last.entry_time.v - last.target_start)
        j == last.judgement
        base == last.base_score
        inScope == last.entry_time.v # NoInput /\ last.min_dist.v <= target_radius
    IN  /\ inScope =>
             /\ (j = "PERFECT") <=> (a <= 416)
             /\ (j = "GREAT") <=> (416 < a /\ a <= 624)
             /\ (j = "GOOD") <=> (624 < a /\ a < 832)
             /\ (j = "BAD") <=> (a >= 832)
             /\ (j = "PERFECT") => (base = max_base)
             /\ (j = "GREAT") <=> (416 < a /\ a < 832 /\ base >= cut_great)
             \* base is 100 * (1 - (a - 416) / 416), cut to whole centi-points
             /\ (416 < a /\ a < 832) =>
                  /\ 416 * base <= max_base * (832 - a)
                  /\ max_base * (832 - a) < 416 * (base + 1)
        /\ (base = 0) <=> (j \in {"BAD", "MISS"})

\* a hit 624 ms late, inside the radius: the last GREAT, worth exactly 50 points
C11_Witness ==
  /\ last.action = "judge"
  /\ last.entry_time.v - last.target_start = 624
  /\ last.min_dist.v = target_radius
  /\ last.judgement = "GREAT"
  /\ last.base_score = cut_great

(***************************************************************************)
(* C12.  Within a session max_combo never decreases and, after every       *)
(* processed note, equals the largest value current_combo has had since    *)
(* the session started, so current_combo <= max_combo; current_combo is 0  *)
(* after a BAD or MISS note and one more than before after any other note. *)
(***************************************************************************)
C12_ComboBookkeeping ==
  [][ /\ last'.action # "game_start" => state'.max_combo >= state.max_combo
      /\ last'.action \in NoteActions =>
           /\ last'.judgement \in Failing => state'.current_combo = 0
           /\ last'.judgement \in Scoring
                => state'.current_combo = state.current_combo + 1
           /\ state'.max_combo = peakCombo'
           /\ state'.current_combo <= state'.max_combo ]_vars

\* a combo of 3 or more was broken and a new one has started
C12_Witness ==
  /\ phase = "PLAYING"
  /\ last.judgement \in Scoring
  /\ state.current_combo > 0
  /\ state.current_combo < state.max_combo
  /\ state.max_combo >= 3

(***************************************************************************)
(* C13.  Every processed note leaves total_score no smaller and raises     *)
(* max_possible_score by at least 100 points; so once a note of the        *)
(* session has been processed max_possible_score is positive.              *)
(***************************************************************************)
C13_LedgerGrows ==
  [][ (last'.action \in NoteActions /\ last'.judgement # "TypeError") =>
        /\ state'.total_score >= state.total_score
        /\ state'.max_possible_score >= state.max_possible_score + max_base
        /\ nJudged' > 0
        /\ state'.max_possible_score > 0 ]_vars

\* the first note of a started session was a miss: nothing scored, 101 points possible
C13_Witness ==
  /\ phase = "PLAYING"
  /\ nJudged = 1
  /\ last.judgement = "MISS"
  /\ state.total_score = 0
  /\ state.max_possible_score > max_base

C16_GaugeFrozenInFever ==
  [][ (/\ last'.action \in NoteActions
       /\ last'.judgement # "TypeError"
       /\ state.fever_active_notes > 0) =>
        state'.fever_gauge = state.fever_gauge ]_vars

(***************************************************************************)
(* C17.  The fever flag of a result record tells whether                   *)
(* fever_active_notes > 0 held when the note came in, before any           *)
(* decrement made for that note.                                           *)
(***************************************************************************)
C17_FlagIsEntryFever ==
  [][ (last'.action \in NoteActions /\ ~last'.raised) =>
        /\ Len(out') >= 1
        /\ out'[1].type = "result"
        /\ out'[1].fever_active = (state.fever_active_notes > 0) ]_vars

(***************************************************************************)
(* C19.  After every processed note total_score <= max_possible_score,     *)
(* also in runs that activate fever and use up all its credits.            *)
(***************************************************************************)
C19_TotalWithinPossible ==
  state.total_score <= state.max_possible_score

\* the note just processed was scored with the multiplier
MultiplierApplied ==
  /\ last'.judgement \in Scoring
  /\ last'.final_score
       = score_multiplier * NoteTotal(last'.base_score, state'.current_combo)

\* the note just processed raised fever_active_notes
FeverActivated == state'.fever_active_notes > state.fever_active_notes

(***************************************************************************)
(* C18.  After a note activates fever, the multiplier is applied to        *)
(* exactly the next fever_duration_notes PERFECT/GREAT/GOOD notes: not to  *)
(* the activating note, to no note that comes in without credits, and no   *)
(* activation happens while credits remain.                                *)
(***************************************************************************)
C18_FeverWindow ==
  [][ (last'.action \in NoteActions /\ last'.judgement # "TypeError") =>
        /\ MultiplierApplied
             <=> (last'.judgement \in Scoring /\ state.fever_active_notes > 0)
        /\ FeverActivated =>
             /\ state.fever_active_notes = 0
             /\ ~MultiplierApplied
             /\ state'.fever_active_notes = fever_duration_notes
        /\ state'.fever_active_notes > 0 =>
             boosted' + state'.fever_active_notes = fever_duration_notes
        /\ (state.fever_active_notes > 0 /\ state'.fever_active_notes = 0) =>
             (MultiplierApplied /\ boosted' = fever_duration_notes) ]_vars

\* a fever window has just closed on its last multiplied note
C18_Witness ==
  /\ NoteEventSeen
  /\ last.judgement \in Scoring
  /\ last.final_score > score_multiplier * last.base_score
  /\ state.fever_active_notes = 0
  /\ boosted = fever_duration_notes

(***************************************************************************)
(* C20.  An event whose handling raises leaves the session as it was:      *)
(* ledger, combo, fever fields and cursor unchanged; and no event changes  *)
(* the ledger without a result record being sent and the cursor moving on. *)
(***************************************************************************)
C20_RaiseLeavesSession ==
  [][ /\ last'.raised =>
           /\ state' = state
           /\ note_index' = note_index
           /\ current_target_time' = current_target_time
      /\ (last'.action \in NoteActions /\ state' # state) =>
           /\ Len(out') >= 1
           /\ out'[1].type = "result"
           /\ note_index' = note_index + 1 ]_vars

====
